---- MODULE Spec2Model ----
(***************************************************************************)
(* Room coordinator of the video-stream signaling server                   *)
(* (pages/api/socket handler, src/unnamed/part_001).                       *)
(*                                                                         *)
(* The server keeps one table, rooms : roomId -> {streamer?, viewers}, and *)
(* handles four socket events per connection: join-room, signal,           *)
(* leave-room and disconnect.  Node runs each handler to completion, so    *)
(* every handler is one atomic action.  While a handler's result is on the *)
(* way out, `lastEvent` is the event it handled, `before` the table it     *)
(* started from and `sent` what it emitted; the event loop then goes back  *)
(* to idle, and only an idle loop dispatches the next event.               *)
(***************************************************************************)
EXTENDS Naturals, FiniteSets, Sequences, Bags, TLC

(* ------------------------------ bounds --------------------------------- *)

\* number of socket connections that are ever opened in a behaviour
NumConns == 3

\* the ids the server gives to sockets (socket.id)
ConnNames == <<"c1", "c2", "c3", "c4", "c5">>

Conns == {ConnNames[i] : i \in 1..NumConns}

\* room codes clients send; "c1" is a room code that equals a socket id
RoomCodes == {"R1", "c1"}

\* the role field of a join-room request; "host" is a value outside the
\* declared type 'streamer' | 'viewer'
Roles == {"streamer", "viewer", "host"}

\* opaque signaling payloads
Payloads == {"offer", "answer"}

\* the `to` field of a signal request
Targets == {"streamer"} \cup Conns

(* ------------------------------ values --------------------------------- *)

\* room.streamer when the optional field is not set
NoStreamer == "undefined"

\* a field an event or message does not carry
Nil == "-"

ErrorText == "Room already has a streamer"

\* interface Room { streamer?: string; viewers: Set<string> }
Room == [streamer : Conns \cup {NoStreamer}, viewers : SUBSET Conns]

\* { viewers: new Set() }
NewRoom == [streamer |-> NoStreamer, viewers |-> {}]

\* io.to(name).emit(ev, ...): a message addressed to the transport room `name`
RoomMsg(name, ev, arg, from) ==
  [chan |-> "room", to |-> name, ev |-> ev, arg |-> arg, from |-> from]

\* socket.emit(ev, ...): a message to the one socket that sent the request
SocketMsg(socketId, ev, arg) ==
  [chan |-> "socket", to |-> socketId, ev |-> ev, arg |-> arg, from |-> Nil]

\* rooms.set(k, v)
MapSet(m, k, v) == [x \in DOMAIN m \cup {k} |-> IF x = k THEN v ELSE m[x]]

\* rooms.delete(k)
MapDelete(m, k) == [x \in DOMAIN m \ {k} |-> m[x]]

\* the empty Map
EmptyMap == [x \in {} |-> NewRoom]

(* ------------------------------ state ---------------------------------- *)

VARIABLES
  rooms,      \* the module-level Map<string, Room>
  sockets,    \* ids of the sockets that are connected
  closed,     \* ids of the sockets that have disconnected
  subs,       \* socket id -> transport-level rooms the socket is in
  lastEvent,  \* the event whose handler has just run, or the idle event
  before,     \* the table as it was when that handler started
  sent,       \* bag of the messages that handler run emitted
  waiting,    \* record: <<v, r>>, v has joined r as viewer and not left since
  announced,  \* record: <<r, v, how>>, how r's streamer of now knows of v
  mounted,    \* ids of the sockets whose client component is mounted
  clicks,     \* number of clicks and page closes the users have made
  up,         \* socket id -> events the client has emitted, not yet handled
  down,       \* socket id -> messages emitted to the socket, not yet handled
  stream,           \* StreamerComponent: a MediaStream is held
  isStreaming,      \* StreamerComponent: isStreaming
  peers,            \* StreamerComponent: peers.current, viewer id -> peer
  instances,        \* StreamerComponent: viewer id -> number of Peer objects
                    \* made for it and not destroyed
  connectedViewers, \* StreamerComponent: connectedViewers
  signalTimers,     \* StreamerComponent: pending setTimeout(..., 100) calls
  peer,             \* ViewerComponent: peer
  isSignaling,      \* ViewerComponent: isSignaling
  isConnected,      \* ViewerComponent: isConnected
  initialSignal     \* ViewerComponent: the pending setTimeout(..., 100) call

\* the state of the two client components and of the connections to them
clientVars == <<mounted, clicks, up, down, stream, isStreaming, peers,
                instances, connectedViewers, signalTimers, peer, isSignaling,
                isConnected, initialSignal>>

vars == <<rooms, sockets, closed, subs, lastEvent, before, sent,
          waiting, announced, clientVars>>

\* peers.current = {}
EmptyPeers == [x \in {} |-> Nil]

\* no Peer object has been made
NoInstances == [v \in Conns |-> 0]

\* the viewer's peer state before the first setPeer
NoPeer == "null"

Event(op, conn, room, role, to, signal) ==
  [op |-> op, conn |-> conn, room |-> room, role |-> role, to |-> to,
   signal |-> signal]

\* the event loop is waiting for the next event
IdleEvent == Event("idle", Nil, Nil, Nil, Nil, Nil)

Idle == lastEvent = IdleEvent

(* ------------------------- join-room handler --------------------------- *)

\* if (!rooms.has(roomId)) rooms.set(roomId, { viewers: new Set() })
EnsureRoom(rs, roomId) ==
  IF roomId \in DOMAIN rs THEN rs ELSE MapSet(rs, roomId, NewRoom)

\* if (room.streamer): a socket id is a non-empty string, so set means truthy
HasStreamer(room) == room.streamer # NoStreamer

\* variant: the waiting viewers are not told about the new streamer
StreamerJoinedMsgs_None(room) == EmptyBag

\* room.viewers.forEach(viewerId => io.to(viewerId).emit('streamer-joined'))
StreamerJoinedMsgs(room) ==
  SetToBag({RoomMsg(v, "streamer-joined", Nil, Nil) : v \in room.viewers})

\* variant: the streamer is not told about the new viewer
ViewerJoinedMsgs_Silent(room, socketId) == EmptyBag

\* if (room.streamer) io.to(room.streamer).emit('viewer-joined', socket.id)
ViewerJoinedMsgs(room, socketId) ==
  IF HasStreamer(room)
  THEN SetToBag({RoomMsg(room.streamer, "viewer-joined", socketId, Nil)})
  ELSE EmptyBag

\* variant: the occupied check is missing, the newcomer takes the slot
JoinAsStreamer_Overwrite(rs, socketId, roomId) ==
  LET room == rs[roomId] IN
  [rooms |-> MapSet(rs, roomId, [room EXCEPT !.streamer = socketId]),
   sent  |-> StreamerJoinedMsgs(room)]

\* variant: the occupied check returns without emitting 'error'
JoinAsStreamer_Silent(rs, socketId, roomId) ==
  LET room == rs[roomId] IN
  IF HasStreamer(room)
  THEN [rooms |-> rs, sent |-> EmptyBag]
  ELSE [rooms |-> MapSet(rs, roomId, [room EXCEPT !.streamer = socketId]),
        sent  |-> StreamerJoinedMsgs(room)]

\* variant: the new streamer is also told about the viewers already waiting
JoinAsStreamer_Retroactive(rs, socketId, roomId) ==
  LET room == rs[roomId] IN
  IF HasStreamer(room)
  THEN [rooms |-> rs,
        sent  |-> SetToBag({SocketMsg(socketId, "error", ErrorText)})]
  ELSE [rooms |-> MapSet(rs, roomId, [room EXCEPT !.streamer = socketId]),
        sent  |-> StreamerJoinedMsgs(room) (+)
                  SetToBag({RoomMsg(socketId, "viewer-joined", v, Nil) :
                              v \in room.viewers})]

\* variant: the refusal is emitted to the transport room, not to the socket
JoinAsStreamer_Broadcast(rs, socketId, roomId) ==
  LET room == rs[roomId] IN
  IF HasStreamer(room)
  THEN [rooms |-> rs,
        sent  |-> SetToBag({RoomMsg(roomId, "error", ErrorText, Nil)})]
  ELSE [rooms |-> MapSet(rs, roomId, [room EXCEPT !.streamer = socketId]),
        sent  |-> StreamerJoinedMsgs(room)]

\* variant: the room's own streamer is let in again and starts the room
\* afresh, without its viewers
JoinAsStreamer_FreshStart(rs, socketId, roomId) ==
  LET room == rs[roomId] IN
  IF HasStreamer(room) /\ room.streamer # socketId
  THEN [rooms |-> rs,
        sent  |-> SetToBag({SocketMsg(socketId, "error", ErrorText)})]
  ELSE [rooms |-> MapSet(rs, roomId,
                         [streamer |-> socketId, viewers |-> {}]),
        sent  |-> StreamerJoinedMsgs(room)]

\* the role === 'streamer' branch
JoinAsStreamer(rs, socketId, roomId) ==
  LET room == rs[roomId] IN
  IF HasStreamer(room)
  THEN [rooms |-> rs,
        sent  |-> SetToBag({SocketMsg(socketId, "error", ErrorText)})]
  ELSE [rooms |-> MapSet(rs, roomId, [room EXCEPT !.streamer = socketId]),
        sent  |-> StreamerJoinedMsgs(room)]

\* the else branch: every other role value
JoinAsViewer(rs, socketId, roomId) ==
  LET room == rs[roomId] IN
  [rooms |-> MapSet(rs, roomId,
                    [room EXCEPT !.viewers = room.viewers \cup {socketId}]),
   sent  |-> ViewerJoinedMsgs(room, socketId)]

\* socket.on('join-room', ({ roomId, role }) => ...), table part
JoinRoom(rs, socketId, roomId, role) ==
  LET rs1 == EnsureRoom(rs, roomId) IN
  IF role = "streamer"
  THEN JoinAsStreamer(rs1, socketId, roomId)
  ELSE JoinAsViewer(rs1, socketId, roomId)

(* --------------------------- signal handler ---------------------------- *)

\* variant: a signal that cannot be routed is answered with 'error'
Signal_ErrorOnDrop(rs, socketId, to, signal, room) ==
  IF to = "streamer"
  THEN IF room \in DOMAIN rs /\ HasStreamer(rs[room])
       THEN SetToBag({RoomMsg(rs[room].streamer, "signal", signal, socketId)})
       ELSE SetToBag({SocketMsg(socketId, "error", ErrorText)})
  ELSE SetToBag({RoomMsg(to, "streamer-signal", signal, Nil)})

\* variant: the forwarded signal is tagged with the streamer's id, not the
\* sender's
Signal_FromStreamer(rs, socketId, to, signal, room) ==
  IF to = "streamer"
  THEN IF room \in DOMAIN rs /\ HasStreamer(rs[room])
       THEN SetToBag({RoomMsg(rs[room].streamer, "signal", signal,
                              rs[room].streamer)})
       ELSE EmptyBag
  ELSE SetToBag({RoomMsg(to, "streamer-signal", signal, Nil)})

\* socket.on('signal', ({ to, signal, room }) => ...)
Signal(rs, socketId, to, signal, room) ==
  IF to = "streamer"
  THEN IF room \in DOMAIN rs /\ HasStreamer(rs[room])
       THEN SetToBag({RoomMsg(rs[room].streamer, "signal", signal, socketId)})
       ELSE EmptyBag
  ELSE SetToBag({RoomMsg(to, "streamer-signal", signal, Nil)})

(* ----------------------- leave-room / disconnect ----------------------- *)

\* variant: the last viewer leaves and the entry is not deleted
handleLeaveRoom_KeepEmpty(rs, socketId, roomId) ==
  IF roomId \notin DOMAIN rs
  THEN [rooms |-> rs, sent |-> EmptyBag]
  ELSE LET room == rs[roomId] IN
       IF room.streamer = socketId
       THEN [rooms |-> MapDelete(rs, roomId),
             sent  |-> SetToBag({RoomMsg(v, "streamer-disconnected", Nil, Nil) :
                                   v \in room.viewers})]
       ELSE IF socketId \in room.viewers
       THEN LET left == [room EXCEPT !.viewers = room.viewers \ {socketId}] IN
            [rooms |-> MapSet(rs, roomId, left),
             sent  |-> IF HasStreamer(left)
                       THEN SetToBag({RoomMsg(left.streamer,
                                              "viewer-disconnected", socketId, Nil)})
                       ELSE EmptyBag]
       ELSE [rooms |-> rs, sent |-> EmptyBag]

\* variant: the streamer leaves and the entry is kept while viewers remain
handleLeaveRoom_KeepViewers(rs, socketId, roomId) ==
  IF roomId \notin DOMAIN rs
  THEN [rooms |-> rs, sent |-> EmptyBag]
  ELSE LET room == rs[roomId] IN
       IF room.streamer = socketId
       THEN [rooms |-> IF room.viewers = {}
                       THEN MapDelete(rs, roomId)
                       ELSE MapSet(rs, roomId,
                                   [room EXCEPT !.streamer = NoStreamer]),
             sent  |-> SetToBag({RoomMsg(v, "streamer-disconnected", Nil, Nil) :
                                   v \in room.viewers})]
       ELSE IF socketId \in room.viewers
       THEN LET left == [room EXCEPT !.viewers = room.viewers \ {socketId}] IN
            [rooms |-> IF ~HasStreamer(left) /\ left.viewers = {}
                       THEN MapDelete(rs, roomId)
                       ELSE MapSet(rs, roomId, left),
             sent  |-> IF HasStreamer(left)
                       THEN SetToBag({RoomMsg(left.streamer,
                                              "viewer-disconnected", socketId, Nil)})
                       ELSE EmptyBag]
       ELSE [rooms |-> rs, sent |-> EmptyBag]

\* variant: leaving one room also takes the socket out of the viewer set of
\* every other room
handleLeaveRoom_EveryRoom(rs, socketId, roomId) ==
  LET strip(t) == [r \in DOMAIN t |->
                     IF r = roomId THEN t[r]
                     ELSE [t[r] EXCEPT !.viewers = t[r].viewers \ {socketId}]]
  IN
  IF roomId \notin DOMAIN rs
  THEN [rooms |-> strip(rs), sent |-> EmptyBag]
  ELSE LET room == rs[roomId] IN
       IF room.streamer = socketId
       THEN [rooms |-> strip(MapDelete(rs, roomId)),
             sent  |-> SetToBag({RoomMsg(v, "streamer-disconnected", Nil, Nil) :
                                   v \in room.viewers})]
       ELSE IF socketId \in room.viewers
       THEN LET left == [room EXCEPT !.viewers = room.viewers \ {socketId}] IN
            [rooms |-> strip(IF ~HasStreamer(left) /\ left.viewers = {}
                             THEN MapDelete(rs, roomId)
                             ELSE MapSet(rs, roomId, left)),
             sent  |-> IF HasStreamer(left)
                       THEN SetToBag({RoomMsg(left.streamer,
                                              "viewer-disconnected", socketId, Nil)})
                       ELSE EmptyBag]
       ELSE [rooms |-> strip(rs), sent |-> EmptyBag]

\* variant: the room is looked up with get-or-create, a leave-room for an
\* unknown room code makes an entry
handleLeaveRoom_Creates(rs, socketId, roomId) ==
  IF roomId \notin DOMAIN rs
  THEN [rooms |-> MapSet(rs, roomId, NewRoom), sent |-> EmptyBag]
  ELSE LET room == rs[roomId] IN
       IF room.streamer = socketId
       THEN [rooms |-> MapDelete(rs, roomId),
             sent  |-> SetToBag({RoomMsg(v, "streamer-disconnected", Nil, Nil) :
                                   v \in room.viewers})]
       ELSE IF socketId \in room.viewers
       THEN LET left == [room EXCEPT !.viewers = room.viewers \ {socketId}] IN
            [rooms |-> IF ~HasStreamer(left) /\ left.viewers = {}
                       THEN MapDelete(rs, roomId)
                       ELSE MapSet(rs, roomId, left),
             sent  |-> IF HasStreamer(left)
                       THEN SetToBag({RoomMsg(left.streamer,
                                              "viewer-disconnected", socketId, Nil)})
                       ELSE EmptyBag]
       ELSE [rooms |-> rs, sent |-> EmptyBag]

\* variant: the viewers.has check is missing, the streamer is told that a
\* socket has left which was not a viewer of the room
handleLeaveRoom_NoMemberCheck(rs, socketId, roomId) ==
  IF roomId \notin DOMAIN rs
  THEN [rooms |-> rs, sent |-> EmptyBag]
  ELSE LET room == rs[roomId] IN
       IF room.streamer = socketId
       THEN [rooms |-> MapDelete(rs, roomId),
             sent  |-> SetToBag({RoomMsg(v, "streamer-disconnected", Nil, Nil) :
                                   v \in room.viewers})]
       ELSE LET left == [room EXCEPT !.viewers = room.viewers \ {socketId}] IN
            [rooms |-> IF ~HasStreamer(left) /\ left.viewers = {}
                       THEN MapDelete(rs, roomId)
                       ELSE MapSet(rs, roomId, left),
             sent  |-> IF HasStreamer(left)
                       THEN SetToBag({RoomMsg(left.streamer,
                                              "viewer-disconnected", socketId, Nil)})
                       ELSE EmptyBag]

\* function handleLeaveRoom(socketId, roomId, io)
handleLeaveRoom(rs, socketId, roomId) ==
  IF roomId \notin DOMAIN rs
  THEN [rooms |-> rs, sent |-> EmptyBag]
  ELSE LET room == rs[roomId] IN
       IF room.streamer = socketId
       THEN [rooms |-> MapDelete(rs, roomId),
             sent  |-> SetToBag({RoomMsg(v, "streamer-disconnected", Nil, Nil) :
                                   v \in room.viewers})]
       ELSE IF socketId \in room.viewers
       THEN LET left == [room EXCEPT !.viewers = room.viewers \ {socketId}] IN
            [rooms |-> IF ~HasStreamer(left) /\ left.viewers = {}
                       THEN MapDelete(rs, roomId)
                       ELSE MapSet(rs, roomId, left),
             sent  |-> IF HasStreamer(left)
                       THEN SetToBag({RoomMsg(left.streamer,
                                              "viewer-disconnected", socketId, Nil)})
                       ELSE EmptyBag]
       ELSE [rooms |-> rs, sent |-> EmptyBag]

\* variant: the streamer's room is deleted and its viewers are not told
handleDisconnect_NoNotice(rs, socketId, roomId) ==
  LET room == rs[roomId] IN
  IF room.streamer = socketId
  THEN [rooms |-> MapDelete(rs, roomId), sent |-> EmptyBag]
  ELSE IF socketId \in room.viewers
  THEN LET left == [room EXCEPT !.viewers = room.viewers \ {socketId}] IN
       [rooms |-> IF ~HasStreamer(left) /\ left.viewers = {}
                  THEN MapDelete(rs, roomId)
                  ELSE MapSet(rs, roomId, left),
        sent  |-> IF HasStreamer(left)
                  THEN SetToBag({RoomMsg(left.streamer,
                                         "viewer-disconnected", socketId, Nil)})
                  ELSE EmptyBag]
  ELSE [rooms |-> rs, sent |-> EmptyBag]

\* variant: the viewers.has check is missing, the streamer of every room is
\* told that the socket has gone
handleDisconnect_NoMemberCheck(rs, socketId, roomId) ==
  LET room == rs[roomId] IN
  IF room.streamer = socketId
  THEN [rooms |-> MapDelete(rs, roomId),
        sent  |-> SetToBag({RoomMsg(v, "streamer-disconnected", Nil, Nil) :
                              v \in room.viewers})]
  ELSE LET left == [room EXCEPT !.viewers = room.viewers \ {socketId}] IN
       [rooms |-> IF ~HasStreamer(left) /\ left.viewers = {}
                  THEN MapDelete(rs, roomId)
                  ELSE MapSet(rs, roomId, left),
        sent  |-> IF HasStreamer(left)
                  THEN SetToBag({RoomMsg(left.streamer,
                                         "viewer-disconnected", socketId, Nil)})
                  ELSE EmptyBag]

\* variant: the copy in handleDisconnect has lost the deletion of a room left
\* without streamer and viewers
handleDisconnect_KeepEmpty(rs, socketId, roomId) ==
  LET room == rs[roomId] IN
  IF room.streamer = socketId
  THEN [rooms |-> MapDelete(rs, roomId),
        sent  |-> SetToBag({RoomMsg(v, "streamer-disconnected", Nil, Nil) :
                              v \in room.viewers})]
  ELSE IF socketId \in room.viewers
  THEN LET left == [room EXCEPT !.viewers = room.viewers \ {socketId}] IN
       [rooms |-> MapSet(rs, roomId, left),
        sent  |-> IF HasStreamer(left)
                  THEN SetToBag({RoomMsg(left.streamer,
                                         "viewer-disconnected", socketId, Nil)})
                  ELSE EmptyBag]
  ELSE [rooms |-> rs, sent |-> EmptyBag]

\* function handleDisconnect(socketId, roomId, room, io), called by forEach
\* for a roomId that is in the table
handleDisconnect(rs, socketId, roomId) ==
  LET room == rs[roomId] IN
  IF room.streamer = socketId
  THEN [rooms |-> MapDelete(rs, roomId),
        sent  |-> SetToBag({RoomMsg(v, "streamer-disconnected", Nil, Nil) :
                              v \in room.viewers})]
  ELSE IF socketId \in room.viewers
  THEN LET left == [room EXCEPT !.viewers = room.viewers \ {socketId}] IN
       [rooms |-> IF ~HasStreamer(left) /\ left.viewers = {}
                  THEN MapDelete(rs, roomId)
                  ELSE MapSet(rs, roomId, left),
        sent  |-> IF HasStreamer(left)
                  THEN SetToBag({RoomMsg(left.streamer,
                                         "viewer-disconnected", socketId, Nil)})
                  ELSE EmptyBag]
  ELSE [rooms |-> rs, sent |-> EmptyBag]

\* variant: only one room of the table is visited
DisconnectAll_OneRoom(acc, socketId, todo) ==
  IF todo = {} THEN acc
  ELSE LET roomId == CHOOSE r \in todo : TRUE
           step   == handleDisconnect(acc.rooms, socketId, roomId)
       IN [rooms |-> step.rooms, sent |-> acc.sent (+) step.sent]

\* rooms.forEach((room, roomId) => handleDisconnect(socket.id, roomId, room, io))
\* over the room ids `todo` that are still to be visited
RECURSIVE DisconnectAll(_, _, _)
DisconnectAll(acc, socketId, todo) ==
  IF todo = {} THEN acc
  ELSE LET roomId == CHOOSE r \in todo : TRUE
           step   == handleDisconnect(acc.rooms, socketId, roomId)
       IN DisconnectAll([rooms |-> step.rooms, sent |-> acc.sent (+) step.sent],
                        socketId, todo \ {roomId})

(* ------------------------------ delivery ------------------------------- *)

\* the sockets a message reaches: the emitting socket for socket.emit, every
\* socket in the transport room for io.to(name).emit
Recipients(m) ==
  IF m.chan = "socket" THEN {m.to} \cap sockets
  ELSE {s \in sockets : m.to \in subs[s]}

(* ------------------------------ actions -------------------------------- *)

Init ==
  /\ rooms = EmptyMap
  /\ sockets = {}
  /\ closed = {}
  /\ subs = [c \in Conns |-> {}]
  /\ lastEvent = IdleEvent
  /\ before = EmptyMap
  /\ sent = EmptyBag
  /\ waiting = {}
  /\ announced = {}
  /\ mounted = {}
  /\ clicks = 0
  /\ up = [c \in Conns |-> <<>>]
  /\ down = [c \in Conns |-> <<>>]
  /\ stream = FALSE
  /\ isStreaming = FALSE
  /\ peers = EmptyPeers
  /\ instances = NoInstances
  /\ connectedViewers = 0
  /\ signalTimers = {}
  /\ peer = NoPeer
  /\ isSignaling = FALSE
  /\ isConnected = FALSE
  /\ initialSignal = Nil

\* io.on('connection', (socket) => ...): the socket is in the transport room
\* named by its own id
Connect(c) ==
  /\ Idle
  /\ c \notin sockets \cup closed
  /\ sockets' = sockets \cup {c}
  /\ subs' = [subs EXCEPT ![c] = {c}]
  /\ lastEvent' = Event("connection", c, Nil, Nil, Nil, Nil)
  /\ sent' = EmptyBag
  /\ before' = rooms
  /\ UNCHANGED <<rooms, closed, waiting, announced, clientVars>>

\* the join-room handler: socket.join(roomId), then the table update
JoinRoomEvent(c, roomId, role) ==
  /\ Idle
  /\ c \in sockets
  /\ LET r == JoinRoom(rooms, c, roomId, role) IN
       /\ rooms' = r.rooms
       /\ sent' = r.sent
  /\ subs' = [subs EXCEPT ![c] = subs[c] \cup {roomId}]
  /\ lastEvent' = Event("join-room", c, roomId, role, Nil, Nil)
  /\ before' = rooms
  /\ UNCHANGED <<sockets, closed, waiting, announced, clientVars>>

SignalEvent(c, to, signal, room) ==
  /\ Idle
  /\ c \in sockets
  /\ sent' = Signal(rooms, c, to, signal, room)
  /\ lastEvent' = Event("signal", c, room, Nil, to, signal)
  /\ before' = rooms
  /\ UNCHANGED <<rooms, sockets, closed, subs, waiting, announced, clientVars>>

LeaveRoomEvent(c, roomId) ==
  /\ Idle
  /\ c \in sockets
  /\ LET r == handleLeaveRoom(rooms, c, roomId) IN
       /\ rooms' = r.rooms
       /\ sent' = r.sent
  /\ lastEvent' = Event("leave-room", c, roomId, Nil, Nil, Nil)
  /\ before' = rooms
  /\ UNCHANGED <<sockets, closed, subs, waiting, announced, clientVars>>

\* the disconnect handler; the transport has removed the socket from its
\* transport rooms before the handler runs
DisconnectEvent(c) ==
  /\ Idle
  /\ c \in sockets
  /\ LET r == DisconnectAll([rooms |-> rooms, sent |-> EmptyBag], c,
                            DOMAIN rooms) IN
       /\ rooms' = r.rooms
       /\ sent' = r.sent
  /\ sockets' = sockets \ {c}
  /\ closed' = closed \cup {c}
  /\ subs' = [subs EXCEPT ![c] = {}]
  /\ lastEvent' = Event("disconnect", c, Nil, Nil, Nil, Nil)
  /\ before' = rooms
  /\ UNCHANGED <<waiting, announced, clientVars>>

\* the record of the viewers that have joined a room (any role but
\* 'streamer') and have neither left it nor disconnected since, brought up
\* to date with the handler that has just run
WaitingAfter ==
  IF lastEvent.op = "join-room" /\ lastEvent.role # "streamer"
  THEN waiting \cup {<<lastEvent.conn, lastEvent.room>>}
  ELSE IF lastEvent.op = "leave-room"
  THEN waiting \ {<<lastEvent.conn, lastEvent.room>>}
  ELSE IF lastEvent.op = "disconnect"
  THEN {p \in waiting : p[1] # lastEvent.conn}
  ELSE waiting

\* the record of how the present streamer of each room has come to know of
\* the viewers the room still has, brought up to date with the handler that
\* has just run: "joined" if it was sent viewer-joined for the viewer, else
\* "found" if the viewer was in the viewer set when it took the slot
AnnouncedAfter ==
  LET r == lastEvent.room
      joined == IF /\ lastEvent.op = "join-room"
                   /\ \E m \in BagToSet(sent) :
                        m.ev = "viewer-joined" /\ m.arg = lastEvent.conn
                THEN {<<r, lastEvent.conn, "joined">>}
                ELSE {}
      found == IF /\ lastEvent.op = "join-room"
                  /\ lastEvent.role = "streamer"
                  /\ r \in DOMAIN before => ~HasStreamer(before[r])
               THEN {<<r, v, "found">> :
                       v \in IF r \in DOMAIN before THEN before[r].viewers
                             ELSE {}}
               ELSE {}
      all == announced \cup joined \cup found
  IN {p \in all :
        /\ p[1] \in DOMAIN rooms
        /\ HasStreamer(rooms[p[1]])
        /\ p[2] \in rooms[p[1]].viewers
        /\ p[3] = "found" => <<p[1], p[2], "joined">> \notin all}

\* the handler has returned and its packets are written: the loop is idle
EventLoopIdle ==
  /\ ~Idle
  /\ lastEvent' = IdleEvent
  /\ before' = rooms
  /\ sent' = EmptyBag
  /\ UNCHANGED <<rooms, sockets, closed, subs, waiting, announced, clientVars>>

\* the same step, with the two records brought up to date
EventLoopIdleRecording ==
  /\ ~Idle
  /\ lastEvent' = IdleEvent
  /\ before' = rooms
  /\ sent' = EmptyBag
  /\ waiting' = WaitingAfter
  /\ announced' = AnnouncedAfter
  /\ UNCHANGED <<rooms, sockets, closed, subs, clientVars>>

Next ==
  \/ \E c \in Conns : Connect(c)
  \/ \E c \in Conns, roomId \in RoomCodes, role \in Roles :
       JoinRoomEvent(c, roomId, role)
  \/ \E c \in Conns, to \in Targets, signal \in Payloads, room \in RoomCodes :
       SignalEvent(c, to, signal, room)
  \/ \E c \in Conns, roomId \in RoomCodes : LeaveRoomEvent(c, roomId)
  \/ \E c \in Conns : DisconnectEvent(c)
  \/ EventLoopIdle

Spec == Init /\ [][Next]_vars

\* the joins, leaves and disconnects of the clients, with the records kept
NextRecording ==
  \/ \E c \in Conns : Connect(c)
  \/ \E c \in Conns, roomId \in RoomCodes, role \in {"streamer", "viewer"} :
       JoinRoomEvent(c, roomId, role)
  \/ \E c \in Conns, roomId \in RoomCodes : LeaveRoomEvent(c, roomId)
  \/ \E c \in Conns : DisconnectEvent(c)
  \/ EventLoopIdleRecording

SpecRecording == Init /\ [][NextRecording]_vars

TypeOK ==
  /\ DOMAIN rooms \subseteq RoomCodes
  /\ \A r \in DOMAIN rooms : rooms[r] \in Room
  /\ sockets \subseteq Conns
  /\ closed \subseteq Conns
  /\ sockets \cap closed = {}

(* ------------------- the two client components ------------------------ *)

\* the socket of the page that shows StreamerComponent, the socket of the
\* page that shows ViewerComponent, and the roomId prop of both
StreamerId == ConnNames[1]
ViewerId == ConnNames[2]
PageRoomId == "R1"

\* simple-peer instances as the components see them: the initiator of the
\* streamer goes new -> offered -> answered -> connected, the non-initiator of
\* the viewer goes new -> answering -> answered -> connected; destroyed is
\* peer.destroyed
LivePeer == {"new", "offered", "answering", "answered", "connected"}
Destroyed == "destroyed"

\* the messages of a bag, one after the other
RECURSIVE BagSeq(_)
BagSeq(b) ==
  IF BagToSet(b) = {} THEN <<>>
  ELSE LET m == CHOOSE x \in BagToSet(b) : TRUE
       IN <<m>> \o BagSeq(b (-) SetToBag({m}))

\* socket.emit(ev, ...) in a client: the event travels to the server
Emit(c, e) == [up EXCEPT ![c] = Append(@, e)]

\* the server takes the next event of socket c and runs its handler
ServerHandle(c) ==
  /\ Idle
  /\ c \in sockets
  /\ up[c] # <<>>
  /\ LET e == Head(up[c])
         r == IF e.op = "join-room"
              THEN JoinRoom(rooms, c, e.room, e.role)
              ELSE IF e.op = "signal"
              THEN [rooms |-> rooms,
                    sent  |-> Signal(rooms, c, e.to, e.signal, e.room)]
              ELSE IF e.op = "leave-room"
              THEN handleLeaveRoom(rooms, c, e.room)
              ELSE DisconnectAll([rooms |-> rooms, sent |-> EmptyBag], c,
                                 DOMAIN rooms)
     IN /\ rooms' = r.rooms
        /\ sent' = r.sent
        /\ lastEvent' = e
        /\ subs' = IF e.op = "join-room"
                   THEN [subs EXCEPT ![c] = subs[c] \cup {e.room}]
                   ELSE IF e.op = "disconnect"
                   THEN [subs EXCEPT ![c] = {}]
                   ELSE subs
        /\ sockets' = IF e.op = "disconnect" THEN sockets \ {c} ELSE sockets
        /\ closed' = IF e.op = "disconnect" THEN closed \cup {c} ELSE closed
  /\ before' = rooms
  /\ up' = [up EXCEPT ![c] = Tail(@)]
  /\ UNCHANGED <<waiting, announced, mounted, clicks, down, stream, isStreaming,
                 peers, instances, connectedViewers, signalTimers, peer, isSignaling,
                 isConnected, initialSignal>>

\* the handler has returned: its packets are written to the sockets they
\* reach, and the loop is idle
EventLoopIdleDelivering ==
  /\ ~Idle
  /\ lastEvent' = IdleEvent
  /\ before' = rooms
  /\ sent' = EmptyBag
  /\ down' = [d \in Conns |->
                IF d \in mounted
                THEN down[d] \o SelectSeq(BagSeq(sent),
                                          LAMBDA m : d \in Recipients(m))
                ELSE <<>>]
  /\ UNCHANGED <<rooms, sockets, closed, subs, waiting, announced, mounted, clicks,
                 up, stream, isStreaming, peers, instances, connectedViewers,
                 signalTimers, peer, isSignaling, isConnected, initialSignal>>

\* a packet arrives at socket c: the next message of down[c], if any
Arrived(c) == c \in mounted /\ down[c] # <<>>
Packet(c) == Head(down[c])
Taken(c) == [down EXCEPT ![c] = Tail(@)]

\* the events each component has a listener for (socket.on)
Listened(c) ==
  IF c = StreamerId
  THEN {"viewer-joined", "signal", "viewer-disconnected"}
  ELSE {"streamer-signal", "streamer-disconnected"}

\* what the server and the other component keep while a component runs
serverVars == <<rooms, sockets, closed, subs, lastEvent, before, sent,
                waiting, announced>>
viewerVars == <<peer, isSignaling, isConnected, initialSignal>>
streamerVars == <<stream, isStreaming, peers, instances, connectedViewers,
                  signalTimers>>

\* a packet for which the component of socket c has no listener
NoListener(c) ==
  /\ Arrived(c)
  /\ Packet(c).ev \notin Listened(c)
  /\ down' = Taken(c)
  /\ UNCHANGED <<serverVars, viewerVars, streamerVars, mounted, clicks, up>>

(* ------------------------- StreamerComponent --------------------------- *)

\* the users click a button or close a page at most this many times
MaxClicks == 6

\* a user clicks a button of a mounted component
Click(c) ==
  /\ c \in mounted
  /\ clicks < MaxClicks
  /\ clicks' = clicks + 1

\* peer.signal(data) on an initiator: the answer to its offer starts the
\* connection; any other signal makes the peer fail and destroy itself
InitiatorSignalled(p, signal) ==
  IF p = "offered" /\ signal = "answer" THEN "answered" ELSE Destroyed

\* createPeerConnection(viewerId, true, socket): an existing peer is destroyed
\* and deleted, the new one is stored (peers.current[viewerId] = peer)
createPeerConnection(ps, viewerId) ==
  [v \in DOMAIN ps \cup {viewerId} |-> IF v = viewerId THEN "new" ELSE ps[v]]

\* peers.current[viewerId].destroy(), where the map holds a peer for viewerId:
\* a live Peer object is gone, a destroyed one was gone before
PeerDestroyed(n, ps, viewerId) ==
  IF viewerId \in DOMAIN ps /\ ps[viewerId] \in LivePeer
  THEN [n EXCEPT ![viewerId] = @ - 1]
  ELSE n

\* the Peer objects after createPeerConnection(viewerId, true, socket): the
\* existing peer is destroyed first, then new Peer(...) makes one
PeerCreated(n, ps, viewerId) ==
  [PeerDestroyed(n, ps, viewerId) EXCEPT ![viewerId] = @ + 1]

\* the Peer objects after peer.signal(data) has left the peer in state p: a
\* peer that fails on the signal destroys itself
PeerSignalled(n, p, viewerId) ==
  IF p = Destroyed THEN [n EXCEPT ![viewerId] = @ - 1] ELSE n

\* delete peers.current[viewerId]
PeerDeleted(ps, viewerId) == [v \in DOMAIN ps \ {viewerId} |-> ps[v]]

\* startStreaming, getUserMedia having resolved
startStreaming ==
  /\ Click(StreamerId)
  /\ ~isStreaming
  /\ stream' = TRUE
  /\ up' = Emit(StreamerId,
                Event("join-room", StreamerId, PageRoomId, "streamer", Nil, Nil))
  /\ isStreaming' = TRUE
  /\ UNCHANGED <<serverVars, viewerVars, mounted, down, peers, instances,
                 connectedViewers, signalTimers>>

stopStreaming ==
  /\ Click(StreamerId)
  /\ isStreaming
  /\ stream' = FALSE
  /\ peers' = EmptyPeers
  /\ instances' = NoInstances
  /\ up' = Emit(StreamerId,
                Event("leave-room", StreamerId, PageRoomId, Nil, Nil, Nil))
  /\ isStreaming' = FALSE
  /\ connectedViewers' = 0
  /\ UNCHANGED <<serverVars, viewerVars, mounted, down, signalTimers>>

\* variant: viewer-joined makes a peer whether or not the map holds one
handleViewerJoined_NoDuplicateCheck ==
  /\ Arrived(StreamerId)
  /\ Packet(StreamerId).ev = "viewer-joined"
  /\ LET viewerId == Packet(StreamerId).arg IN
       IF stream
       THEN /\ peers' = createPeerConnection(peers, viewerId)
            /\ instances' = PeerCreated(instances, peers, viewerId)
       ELSE UNCHANGED <<peers, instances>>
  /\ down' = Taken(StreamerId)
  /\ UNCHANGED <<serverVars, viewerVars, mounted, clicks, up, stream, isStreaming,
                 connectedViewers, signalTimers>>

\* socket.on('viewer-joined', handleViewerJoined)
handleViewerJoined ==
  /\ Arrived(StreamerId)
  /\ Packet(StreamerId).ev = "viewer-joined"
  /\ LET viewerId == Packet(StreamerId).arg IN
       IF viewerId \in DOMAIN peers THEN UNCHANGED <<peers, instances>>
       ELSE IF stream
       THEN /\ peers' = createPeerConnection(peers, viewerId)
            /\ instances' = PeerCreated(instances, peers, viewerId)
       ELSE UNCHANGED <<peers, instances>>
  /\ down' = Taken(StreamerId)
  /\ UNCHANGED <<serverVars, viewerVars, mounted, clicks, up, stream, isStreaming,
                 connectedViewers, signalTimers>>

\* socket.on('signal', handleSignal); the catch around peer.signal is not
\* reached, the peer fails through its 'error' event
handleSignal ==
  /\ Arrived(StreamerId)
  /\ Packet(StreamerId).ev = "signal"
  /\ LET from == Packet(StreamerId).from
         signal == Packet(StreamerId).arg
     IN IF from \in DOMAIN peers /\ peers[from] # Destroyed
        THEN /\ peers' = [peers EXCEPT
                            ![from] = InitiatorSignalled(@, signal)]
             /\ instances' = PeerSignalled(instances, peers'[from], from)
             /\ UNCHANGED signalTimers
        ELSE IF from \notin DOMAIN peers /\ stream
        THEN /\ peers' = createPeerConnection(peers, from)
             /\ instances' = PeerCreated(instances, peers, from)
             /\ signalTimers' = signalTimers \cup {<<from, signal>>}
        ELSE UNCHANGED <<peers, instances, signalTimers>>
  /\ down' = Taken(StreamerId)
  /\ UNCHANGED <<serverVars, viewerVars, mounted, clicks, up, stream, isStreaming,
                 connectedViewers>>

\* the setTimeout(..., 100) of handleSignal runs: the signal is given to the
\* peer the map holds by then; on a destroyed peer peer.signal throws
SignalTimer(t) ==
  /\ StreamerId \in mounted
  /\ t \in signalTimers
  /\ signalTimers' = signalTimers \ {t}
  /\ IF t[1] \in DOMAIN peers /\ peers[t[1]] # Destroyed
     THEN /\ peers' = [peers EXCEPT ![t[1]] = InitiatorSignalled(@, t[2])]
          /\ instances' = PeerSignalled(instances, peers'[t[1]], t[1])
     ELSE UNCHANGED <<peers, instances>>
  /\ UNCHANGED <<serverVars, viewerVars, mounted, clicks, up, down, stream,
                 isStreaming, connectedViewers>>

\* socket.on('viewer-disconnected', handleViewerDisconnected)
handleViewerDisconnected ==
  /\ Arrived(StreamerId)
  /\ Packet(StreamerId).ev = "viewer-disconnected"
  /\ peers' = PeerDeleted(peers, Packet(StreamerId).arg)
  /\ instances' = PeerDestroyed(instances, peers, Packet(StreamerId).arg)
  /\ connectedViewers' = connectedViewers - 1
  /\ down' = Taken(StreamerId)
  /\ UNCHANGED <<serverVars, viewerVars, mounted, clicks, up, stream, isStreaming,
                 signalTimers>>

\* peer.on('signal'): the initiator has its offer ready
StreamerPeerSignal(viewerId) ==
  /\ StreamerId \in mounted
  /\ viewerId \in DOMAIN peers
  /\ peers[viewerId] = "new"
  /\ peers' = [peers EXCEPT ![viewerId] = "offered"]
  /\ up' = Emit(StreamerId,
                Event("signal", StreamerId, PageRoomId, Nil, viewerId, "offer"))
  /\ UNCHANGED <<serverVars, viewerVars, mounted, clicks, down, stream, isStreaming,
                 instances, connectedViewers, signalTimers>>

\* peer.on('connect')
StreamerPeerConnect(viewerId) ==
  /\ StreamerId \in mounted
  /\ viewerId \in DOMAIN peers
  /\ peers[viewerId] = "answered"
  /\ peers' = [peers EXCEPT ![viewerId] = "connected"]
  /\ connectedViewers' = connectedViewers + 1
  /\ UNCHANGED <<serverVars, viewerVars, mounted, clicks, up, down, stream,
                 isStreaming, instances, signalTimers>>

\* peer.on('error'): the peer has destroyed itself, the map keeps it
StreamerPeerError(viewerId) ==
  /\ StreamerId \in mounted
  /\ viewerId \in DOMAIN peers
  /\ peers[viewerId] \in LivePeer
  /\ peers' = [peers EXCEPT ![viewerId] = Destroyed]
  /\ instances' = PeerDestroyed(instances, peers, viewerId)
  /\ UNCHANGED <<serverVars, viewerVars, mounted, clicks, up, down, stream,
                 isStreaming, connectedViewers, signalTimers>>

(* -------------------------- ViewerComponent ---------------------------- *)

\* peer.signal(data) on the non-initiator: an offer is answered; any other
\* signal makes the peer fail and destroy itself
ReceiverSignalled(p, signal) ==
  IF signal # "offer" THEN Destroyed
  ELSE IF p = "connected" THEN "connected"
  ELSE "answering"

\* if (!socket || isSignaling) return, in createPeerConnection and in
\* connectToStream; the socket is set from the mount on
NotSignaling == ViewerId \in mounted /\ ~isSignaling

\* socket.on('streamer-signal', handleStreamerSignal), with the call of
\* createPeerConnection(signal) it makes when there is no peer
handleStreamerSignal ==
  /\ Arrived(ViewerId)
  /\ Packet(ViewerId).ev = "streamer-signal"
  /\ LET signal == Packet(ViewerId).arg IN
       IF peer \in LivePeer
       THEN /\ peer' = ReceiverSignalled(peer, signal)
            /\ initialSignal' = IF peer' = Destroyed THEN Nil ELSE initialSignal
            /\ isConnected' = (isConnected /\ peer' # Destroyed)
            /\ UNCHANGED isSignaling
       ELSE IF peer = NoPeer /\ NotSignaling
       THEN /\ isSignaling' = TRUE
            /\ peer' = "new"
            /\ initialSignal' = signal
            /\ UNCHANGED isConnected
       ELSE UNCHANGED viewerVars
  /\ down' = Taken(ViewerId)
  /\ UNCHANGED <<serverVars, streamerVars, mounted, clicks, up>>

\* the setTimeout(..., 100) of createPeerConnection runs:
\* if (!newPeer.destroyed) newPeer.signal(initialSignal)
InitialSignalTimer ==
  /\ ViewerId \in mounted
  /\ initialSignal # Nil
  /\ peer \in LivePeer
  /\ peer' = ReceiverSignalled(peer, initialSignal)
  /\ initialSignal' = Nil
  /\ isConnected' = (isConnected /\ peer' # Destroyed)
  /\ UNCHANGED <<serverVars, streamerVars, mounted, clicks, up, down,
                 isSignaling>>

\* socket.on('streamer-disconnected', handleStreamerDisconnected)
handleStreamerDisconnected ==
  /\ Arrived(ViewerId)
  /\ Packet(ViewerId).ev = "streamer-disconnected"
  /\ isConnected' = FALSE
  /\ isSignaling' = FALSE
  /\ peer' = NoPeer
  /\ initialSignal' = Nil
  /\ down' = Taken(ViewerId)
  /\ UNCHANGED <<serverVars, streamerVars, mounted, clicks, up>>

\* variant: the viewer's signal does not name the room
ViewerPeerSignal_NoRoom ==
  /\ ViewerId \in mounted
  /\ peer = "answering"
  /\ peer' = "answered"
  /\ up' = Emit(ViewerId,
                Event("signal", ViewerId, Nil, Nil, "streamer", "answer"))
  /\ UNCHANGED <<serverVars, streamerVars, mounted, clicks, down,
                 isSignaling, isConnected, initialSignal>>

\* newPeer.on('signal'): the answer is ready
ViewerPeerSignal ==
  /\ ViewerId \in mounted
  /\ peer = "answering"
  /\ peer' = "answered"
  /\ up' = Emit(ViewerId,
                Event("signal", ViewerId, PageRoomId, Nil, "streamer", "answer"))
  /\ UNCHANGED <<serverVars, streamerVars, mounted, clicks, down,
                 isSignaling, isConnected, initialSignal>>

\* newPeer.on('stream'): the streamer's peer has taken the answer and the
\* media arrives
ViewerPeerStream ==
  /\ ViewerId \in mounted
  /\ peer = "answered"
  /\ ViewerId \in DOMAIN peers
  /\ peers[ViewerId] \in {"answered", "connected"}
  /\ peer' = "connected"
  /\ isConnected' = TRUE
  /\ UNCHANGED <<serverVars, streamerVars, mounted, clicks, up, down,
                 isSignaling, initialSignal>>

\* newPeer.on('error'): the peer has destroyed itself, the state keeps it
ViewerPeerError ==
  /\ ViewerId \in mounted
  /\ peer \in LivePeer
  /\ peer' = Destroyed
  /\ isConnected' = FALSE
  /\ initialSignal' = Nil
  /\ UNCHANGED <<serverVars, streamerVars, mounted, clicks, up, down,
                 isSignaling>>

\* the Connect button, shown while !isConnected
connectToStream ==
  /\ Click(ViewerId)
  /\ ~isConnected
  /\ IF NotSignaling
     THEN /\ peer' = NoPeer
          /\ initialSignal' = Nil
          /\ up' = Emit(ViewerId,
                        Event("join-room", ViewerId, PageRoomId, "viewer",
                              Nil, Nil))
     ELSE UNCHANGED <<peer, initialSignal, up>>
  /\ UNCHANGED <<serverVars, streamerVars, mounted, down, isSignaling,
                 isConnected>>

\* the Disconnect button, shown while isConnected
disconnect ==
  /\ Click(ViewerId)
  /\ isConnected
  /\ peer' = NoPeer
  /\ initialSignal' = Nil
  /\ up' = Emit(ViewerId,
                Event("leave-room", ViewerId, PageRoomId, Nil, Nil, Nil))
  /\ isConnected' = FALSE
  /\ isSignaling' = FALSE
  /\ UNCHANGED <<serverVars, streamerVars, mounted, down>>

(* ------------------------- the client system --------------------------- *)

\* the page of socket c is closed: the effect cleanups run, newSocket
\* .disconnect() closes the socket and the component with its peers is gone
Unmount(c) ==
  /\ Click(c)
  /\ mounted' = mounted \ {c}
  /\ up' = Emit(c, Event("disconnect", c, Nil, Nil, Nil, Nil))
  /\ down' = [down EXCEPT ![c] = <<>>]
  /\ IF c = StreamerId
     THEN /\ peers' = EmptyPeers
          /\ instances' = NoInstances
          /\ signalTimers' = {}
          /\ stream' = FALSE
          /\ isStreaming' = FALSE
          /\ connectedViewers' = 0
          /\ UNCHANGED viewerVars
     ELSE /\ peer' = NoPeer
          /\ initialSignal' = Nil
          /\ isSignaling' = FALSE
          /\ isConnected' = FALSE
          /\ UNCHANGED streamerVars
  /\ UNCHANGED serverVars

\* both pages are open and their sockets are connected
InitClients ==
  /\ rooms = EmptyMap
  /\ sockets = {StreamerId, ViewerId}
  /\ closed = {}
  /\ subs = [c \in Conns |-> IF c \in {StreamerId, ViewerId} THEN {c} ELSE {}]
  /\ lastEvent = IdleEvent
  /\ before = EmptyMap
  /\ sent = EmptyBag
  /\ waiting = {}
  /\ announced = {}
  /\ mounted = {StreamerId, ViewerId}
  /\ clicks = 0
  /\ up = [c \in Conns |-> <<>>]
  /\ down = [c \in Conns |-> <<>>]
  /\ stream = FALSE
  /\ isStreaming = FALSE
  /\ peers = EmptyPeers
  /\ instances = NoInstances
  /\ connectedViewers = 0
  /\ signalTimers = {}
  /\ peer = NoPeer
  /\ isSignaling = FALSE
  /\ isConnected = FALSE
  /\ initialSignal = Nil

\* the steps that follow an event without a user: the server's handlers, the
\* components' listeners and timers, and the peers' signal events
Relay ==
  \/ \E c \in {StreamerId, ViewerId} : ServerHandle(c)
  \/ EventLoopIdleDelivering
  \/ handleViewerJoined
  \/ handleSignal
  \/ handleViewerDisconnected
  \/ \E t \in signalTimers : SignalTimer(t)
  \/ StreamerPeerSignal(ViewerId)
  \/ handleStreamerSignal
  \/ handleStreamerDisconnected
  \/ \E c \in {StreamerId, ViewerId} : NoListener(c)
  \/ InitialSignalTimer
  \/ ViewerPeerSignal

NextClients ==
  \/ Relay
  \/ startStreaming
  \/ stopStreaming
  \/ connectToStream
  \/ disconnect
  \/ \E c \in {StreamerId, ViewerId} : Unmount(c)
  \/ StreamerPeerConnect(ViewerId)
  \/ StreamerPeerError(ViewerId)
  \/ ViewerPeerStream
  \/ ViewerPeerError

\* every event emitted is handled and every timer runs
FairRelay ==
  /\ \A c \in {StreamerId, ViewerId} : WF_vars(ServerHandle(c))
  /\ WF_vars(EventLoopIdleDelivering)
  /\ WF_vars(handleViewerJoined)
  /\ WF_vars(handleSignal)
  /\ WF_vars(handleViewerDisconnected)
  /\ WF_vars(\E t \in signalTimers : SignalTimer(t))
  /\ WF_vars(StreamerPeerSignal(ViewerId))
  /\ WF_vars(handleStreamerSignal)
  /\ WF_vars(handleStreamerDisconnected)
  /\ \A c \in {StreamerId, ViewerId} : WF_vars(NoListener(c))
  /\ WF_vars(InitialSignalTimer)
  /\ WF_vars(ViewerPeerSignal)

SpecClients == InitClients /\ [][NextClients]_vars /\ FairRelay

(* ------------------- what the last handler run was --------------------- *)

\* the handler that has just run was join-room with this role
JoinedWith(role) == lastEvent.op = "join-room" /\ lastEvent.role = role

\* room r was in the table with a streamer when the handler started
HadStreamer(r) == r \in DOMAIN before /\ HasStreamer(before[r])

\* the viewer set of r when the handler started
ViewersBefore(r) == IF r \in DOMAIN before THEN before[r].viewers ELSE {}

\* the handler that has just run was a teardown of lastEvent.conn that
\* visited room r: leave-room for r, or disconnect
TornDown(r) ==
  /\ r \in DOMAIN before
  /\ \/ lastEvent.op = "leave-room" /\ lastEvent.room = r
     \/ lastEvent.op = "disconnect"

\* ... and lastEvent.conn was the streamer of r
StreamerLeft(r) == TornDown(r) /\ before[r].streamer = lastEvent.conn

\* ... and lastEvent.conn was a viewer of r, whose streamer was someone else
ViewerLeft(r) ==
  /\ TornDown(r)
  /\ HasStreamer(before[r])
  /\ before[r].streamer # lastEvent.conn
  /\ lastEvent.conn \in before[r].viewers

\* the messages of `sent` addressed to name
SentTo(name) == {m \in BagToSet(sent) : m.to = name}

ErrorTo(c) == SocketMsg(c, "error", ErrorText)

(* ------------------------------- C1 ------------------------------------ *)

\* C1: a join-room as streamer from a connection D for a room that already
\* has another connection S as streamer is rejected: the whole table is what
\* it was before the request, the slot still holds S, and D is sent 'error'.
C1_RejectedJoinKeepsTable ==
  (/\ JoinedWith("streamer")
   /\ HadStreamer(lastEvent.room)
   /\ before[lastEvent.room].streamer # lastEvent.conn)
  => /\ rooms = before
     /\ rooms[lastEvent.room].streamer = before[lastEvent.room].streamer
     /\ sent = SetToBag({ErrorTo(lastEvent.conn)})

\* a second connection has just been refused the slot of a room with viewers
C1_Witness ==
  /\ JoinedWith("streamer")
  /\ HadStreamer(lastEvent.room)
  /\ before[lastEvent.room].streamer # lastEvent.conn
  /\ before[lastEvent.room].viewers # {}
  /\ BagIn(ErrorTo(lastEvent.conn), sent)

(* ------------------------------- C2 ------------------------------------ *)

\* the two join-room handlers for role streamer and room r, run for a and
\* then for b from the current table
FirstJoin(a, r) == JoinRoom(rooms, a, r, "streamer")

SecondJoin(a, b, r) == JoinRoom(FirstJoin(a, r).rooms, b, r, "streamer")

\* C2 as stated: whatever the room's state, of two distinct connections that
\* request the streamer slot of the same room the one processed first ends
\* up in the slot and the other one is sent 'error'.
C2_Original ==
  \A a \in sockets, b \in sockets, r \in RoomCodes :
    a # b =>
      /\ SecondJoin(a, b, r).rooms[r].streamer = a
      /\ BagIn(ErrorTo(b), SecondJoin(a, b, r).sent)

\* C2 as amended: when the slot of the room is free, of two distinct
\* connections that request it, in either order, the one processed first
\* gets the slot without an error and the second one is sent 'error' and
\* leaves the table as the first one made it.
C2_FirstStreamerWins ==
  \A a \in sockets, b \in sockets, r \in RoomCodes :
    (a # b /\ ~(r \in DOMAIN rooms /\ HasStreamer(rooms[r]))) =>
      /\ FirstJoin(a, r).rooms[r].streamer = a
      /\ ~BagIn(ErrorTo(a), FirstJoin(a, r).sent)
      /\ SecondJoin(a, b, r).rooms = FirstJoin(a, r).rooms
      /\ SecondJoin(a, b, r).sent = SetToBag({ErrorTo(b)})

\* a connection took the free slot of a room and the next request handled
\* was another connection's join-room as streamer for that room
C2_Witness ==
  /\ JoinedWith("streamer")
  /\ BagIn(ErrorTo(lastEvent.conn), sent)
  /\ rooms[lastEvent.room].streamer \in sockets \ {lastEvent.conn}
  /\ rooms[lastEvent.room].viewers = {}

(* ------------------------------- C3 ------------------------------------ *)

\* C3: every entry of the table has a streamer or at least one viewer.
C3_NoEmptyRoom ==
  \A r \in DOMAIN rooms : HasStreamer(rooms[r]) \/ rooms[r].viewers # {}

\* the last viewer of a room without streamer has left, and the entry is gone
C3_Witness ==
  /\ lastEvent.op \in {"leave-room", "disconnect"}
  /\ \E r \in DOMAIN before \ DOMAIN rooms :
       /\ ~HasStreamer(before[r])
       /\ before[r].viewers = {lastEvent.conn}

(* ------------------------------- C4 ------------------------------------ *)

\* the (room, role) pairs connection c holds in the table
RolesOf(c) ==
  {<<r, "streamer">> : r \in {x \in DOMAIN rooms : rooms[x].streamer = c}}
    \cup {<<r, "viewer">> : r \in {x \in DOMAIN rooms : c \in rooms[x].viewers}}

\* C4: every connection holds at most one role in at most one room.
C4_NoDualMembership == \A c \in Conns : Cardinality(RolesOf(c)) <= 1

(* ------------------------------- C5 ------------------------------------ *)

\* C5: when the streamer of a room leaves or disconnects, the entry is
\* deleted, viewers or not, and streamer-disconnected is sent to every
\* connection that was in the viewer set.
C5_StreamerDeparture ==
  \A r \in RoomCodes :
    StreamerLeft(r) =>
      /\ r \notin DOMAIN rooms
      /\ \A v \in before[r].viewers :
           BagIn(RoomMsg(v, "streamer-disconnected", Nil, Nil), sent)

\* a streamer with two viewers has disconnected
C5_Witness ==
  /\ lastEvent.op = "disconnect"
  /\ \E r \in RoomCodes :
       StreamerLeft(r) /\ Cardinality(before[r].viewers \ {lastEvent.conn}) = 2

(* ------------------------------- C6 ------------------------------------ *)

\* C6 as stated: after the streamer left, the entry is absent if and only if
\* the streamer left no viewer behind.
C6_Original ==
  \A r \in RoomCodes :
    StreamerLeft(r) =>
      ((r \notin DOMAIN rooms) <=> (before[r].viewers \ {lastEvent.conn} = {}))

\* C6 as amended: after the streamer left, the entry is absent whether or not
\* the viewer set was empty.
C6_EntryGoneWithViewers ==
  \A r \in RoomCodes :
    StreamerLeft(r) => r \notin DOMAIN rooms

\* a streamer has left, by leave-room, a room in which a viewer was present
C6_Witness ==
  /\ lastEvent.op = "leave-room"
  /\ StreamerLeft(lastEvent.room)
  /\ before[lastEvent.room].viewers \ {lastEvent.conn} # {}
  /\ lastEvent.room \notin DOMAIN rooms

(* ------------------------------- C7 ------------------------------------ *)

\* C7: when a viewer V of a room with streamer S leaves or disconnects, V is
\* removed, the other viewers and S stay, the entry stays, exactly one
\* viewer-disconnected carrying V is sent to S and nothing to the other
\* viewers.
C7_ViewerDeparture ==
  \A r \in RoomCodes :
    ViewerLeft(r) =>
      /\ r \in DOMAIN rooms
      /\ rooms[r].viewers = before[r].viewers \ {lastEvent.conn}
      /\ rooms[r].streamer = before[r].streamer
      /\ CopiesIn(RoomMsg(before[r].streamer, "viewer-disconnected",
                          lastEvent.conn, Nil), sent) = 1
      /\ \A w \in before[r].viewers \ {lastEvent.conn, before[r].streamer} :
           SentTo(w) = {}

(* ------------------------------- C8 ------------------------------------ *)

\* C8, first half: a successful join-room as streamer sends streamer-joined
\* to the connections of the room's viewer set and nothing else.
C8_NotifiesWaitingViewers ==
  (JoinedWith("streamer") /\ ~HadStreamer(lastEvent.room)) =>
    sent = SetToBag({RoomMsg(v, "streamer-joined", Nil, Nil) :
                       v \in ViewersBefore(lastEvent.room)})

\* C8, second half: a viewer waiting in a room without streamer is sent
\* streamer-joined by another connection's request only when that request is
\* a join-room as streamer for that room.
C8_NothingWhileWaiting ==
  \A r \in DOMAIN before :
    \A v \in before[r].viewers \ {lastEvent.conn} :
      (~HasStreamer(before[r])
         /\ BagIn(RoomMsg(v, "streamer-joined", Nil, Nil), sent))
      => JoinedWith("streamer") /\ lastEvent.room = r

\* C8: both halves.
C8_StreamerJoined == C8_NotifiesWaitingViewers /\ C8_NothingWhileWaiting

(* ------------------------------- C9 ------------------------------------ *)

\* C9: a join-room as viewer from C sends viewer-joined carrying C to the
\* room's streamer and nothing else; without a streamer it sends nothing and
\* C is in the viewer set.
C9_ViewerJoin ==
  JoinedWith("viewer") =>
    /\ lastEvent.conn \in rooms[lastEvent.room].viewers
    /\ IF HadStreamer(lastEvent.room)
       THEN sent = SetToBag({RoomMsg(before[lastEvent.room].streamer,
                                     "viewer-joined", lastEvent.conn, Nil)})
       ELSE sent = EmptyBag

\* a viewer has joined a room that has another connection as streamer
C9_Witness ==
  /\ JoinedWith("viewer")
  /\ HadStreamer(lastEvent.room)
  /\ before[lastEvent.room].streamer # lastEvent.conn
  /\ lastEvent.conn \notin before[lastEvent.room].viewers
  /\ sent # EmptyBag

(* ------------------------------- C10 ----------------------------------- *)

\* C10: a join-room as streamer sends no viewer-joined, and every
\* viewer-joined that is sent carries the connection whose join-room is being
\* handled and goes to the connection that held the slot of that room when
\* the handler started.
C10_NoRetroactiveViewerJoined ==
  /\ JoinedWith("streamer") => \A m \in BagToSet(sent) : m.ev # "viewer-joined"
  /\ \A m \in BagToSet(sent) :
       m.ev = "viewer-joined" =>
         /\ lastEvent.op = "join-room"
         /\ m.arg = lastEvent.conn
         /\ HadStreamer(lastEvent.room)
         /\ m.to = before[lastEvent.room].streamer

\* a streamer has taken the slot of a room in which two viewers were waiting
C10_Witness ==
  /\ JoinedWith("streamer")
  /\ ~HadStreamer(lastEvent.room)
  /\ Cardinality(ViewersBefore(lastEvent.room) \ {lastEvent.conn}) = 2
  /\ rooms[lastEvent.room].streamer = lastEvent.conn

(* ------------------------------- C11 ----------------------------------- *)

\* connection c held this role in room r when the handler started
HeldBefore(c, r, role) ==
  /\ r \in DOMAIN before
  /\ role = "streamer" => before[r].streamer = c
  /\ role = "viewer" => c \in before[r].viewers
  /\ role \in {"streamer", "viewer"}

\* the handler that has just run was a join-room with a role for a room in
\* which the requester already held that role
Rejoined(role) ==
  /\ JoinedWith(role)
  /\ HeldBefore(lastEvent.conn, lastEvent.room, role)

\* the table after connection c has sent the same join-room once, and twice
JoinedOnce(c, r, role) == JoinRoom(rooms, c, r, role).rooms
JoinedTwice(c, r, role) == JoinRoom(JoinedOnce(c, r, role), c, r, role).rooms

\* C11: a join-room repeated by the same connection for the same room with
\* the same role does not change the table again: the table after the second
\* request is the table after the first, the viewer set holds the connection
\* (once, being a set) and the streamer slot still holds it.
C11_RepeatedJoinKeepsTable ==
  /\ \A c \in sockets : \A r \in RoomCodes : \A role \in {"streamer", "viewer"} :
       JoinedTwice(c, r, role) = JoinedOnce(c, r, role)
  /\ \A role \in {"streamer", "viewer"} : Rejoined(role) => rooms = before
  /\ Rejoined("viewer") => lastEvent.conn \in rooms[lastEvent.room].viewers
  /\ Rejoined("streamer") => rooms[lastEvent.room].streamer = lastEvent.conn

\* a viewer has joined again a room that has a streamer and another viewer
C11_Witness ==
  /\ Rejoined("viewer")
  /\ HadStreamer(lastEvent.room)
  /\ before[lastEvent.room].streamer # lastEvent.conn
  /\ before[lastEvent.room].viewers \ {lastEvent.conn} # {}
  /\ rooms = before

(* ------------------------------- C12 ----------------------------------- *)

\* C12: when a connection that is already a viewer of a room (and not its
\* streamer) sends join-room as viewer for it again, no further viewer-joined
\* is sent to the room's streamer.
C12_NoDuplicateViewerJoined ==
  (/\ Rejoined("viewer")
   /\ before[lastEvent.room].streamer # lastEvent.conn)
  => \A m \in BagToSet(sent) : m.ev # "viewer-joined"

(* ------------------------------- C13 ----------------------------------- *)

\* C13: a join-room as streamer from the connection that already is the
\* room's streamer is a no-op: the table is unchanged, the connection is sent
\* no 'error' and nothing is sent to anyone.
C13_StreamerRejoinIsNoOp ==
  Rejoined("streamer") => rooms = before /\ sent = EmptyBag

(* ------------------------------- C14 ----------------------------------- *)

\* the handler that has just run refused a join-room as streamer
Rejected == JoinedWith("streamer") /\ HadStreamer(lastEvent.room)

\* C14: a refused join-room as streamer is reported to the requester only:
\* exactly one message is sent, it is the 'error' for the requester, it
\* reaches the requester's socket and no other, and so neither the room's
\* streamer nor any viewer gets streamer-joined, viewer-joined or 'error'.
C14_RejectionToRequesterOnly ==
  Rejected =>
    /\ sent = SetToBag({ErrorTo(lastEvent.conn)})
    /\ CopiesIn(ErrorTo(lastEvent.conn), sent) = 1
    /\ \A m \in BagToSet(sent) : Recipients(m) = {lastEvent.conn}
    /\ \A c \in sockets \ {lastEvent.conn} :
         \A m \in BagToSet(sent) : c \notin Recipients(m)

\* a connection has been refused the slot of a room, named like a socket id,
\* that has another connection as streamer and a third one as viewer
C14_Witness ==
  /\ Rejected
  /\ lastEvent.room \in Conns
  /\ before[lastEvent.room].streamer # lastEvent.conn
  /\ before[lastEvent.room].viewers \ {lastEvent.conn} # {}
  /\ Recipients(ErrorTo(lastEvent.conn)) = {lastEvent.conn}

(* ------------------------------- C15 ----------------------------------- *)

\* the handler that has just run was a signal addressed to "streamer"
SignalledStreamer == lastEvent.op = "signal" /\ lastEvent.to = "streamer"

\* C15: a signal addressed to "streamer" for a room that is not in the table,
\* or whose streamer slot is empty, is dropped: no message is sent, the
\* sender gets no 'error', and the table is unchanged.
C15_UnroutableSignalDropped ==
  (SignalledStreamer /\ ~HadStreamer(lastEvent.room))
  => sent = EmptyBag /\ rooms = before

\* a viewer waiting in a room without streamer has signalled "streamer"
C15_Witness ==
  /\ SignalledStreamer
  /\ lastEvent.room \in DOMAIN before
  /\ ~HasStreamer(before[lastEvent.room])
  /\ lastEvent.conn \in before[lastEvent.room].viewers
  /\ sent = EmptyBag

(* ------------------------------- C16 ----------------------------------- *)

\* the 'signal' message the streamer of the addressed room is to get
ForwardedSignal ==
  RoomMsg(before[lastEvent.room].streamer, "signal",
          lastEvent.signal, lastEvent.conn)

\* C16: a signal addressed to "streamer" for a room that has a streamer S is
\* delivered to S as exactly one 'signal' message, whose from is the sender's
\* connection id and whose payload is the one that was sent; nothing else is
\* sent.
C16_SignalToStreamer ==
  (SignalledStreamer /\ HadStreamer(lastEvent.room))
  => /\ sent = SetToBag({ForwardedSignal})
     /\ CopiesIn(ForwardedSignal, sent) = 1
     /\ before[lastEvent.room].streamer \in Recipients(ForwardedSignal)
     /\ rooms = before

\* a viewer of a room has signalled an answer to the room's streamer
C16_Witness ==
  /\ SignalledStreamer
  /\ HadStreamer(lastEvent.room)
  /\ lastEvent.conn \in before[lastEvent.room].viewers
  /\ lastEvent.conn # before[lastEvent.room].streamer
  /\ lastEvent.signal = "answer"
  /\ BagIn(ForwardedSignal, sent)

(* ------------------------------- C17 ----------------------------------- *)

\* connection x is a viewer of some room of the table
IsViewer(x) == \E r \in DOMAIN rooms : x \in rooms[r].viewers

\* the sender of the signal is the streamer of a room in which x is a viewer
FromStreamerOf(x) ==
  \E r \in DOMAIN rooms :
    rooms[r].streamer = lastEvent.conn /\ x \in rooms[r].viewers

\* C17: every streamer-signal delivered to the viewer X it is addressed to
\* was sent by the connection that is the streamer of a room in which X is a
\* viewer; a signal from any other connection is never delivered to a viewer.
C17_StreamerSignalFromStreamer ==
  lastEvent.op = "signal" =>
    \A m \in BagToSet(sent) :
      m.ev = "streamer-signal" =>
        \A x \in (Recipients(m) \cap {m.to}) \ {lastEvent.conn} :
          IsViewer(x) => FromStreamerOf(x)

(* ------------------------------- C18 ----------------------------------- *)

\* when the handler started, connection c was neither streamer nor viewer of
\* room r, or r was not in the table
NoPartBefore(c, r) ==
  \/ r \notin DOMAIN before
  \/ before[r].streamer # c /\ c \notin before[r].viewers

\* the handler that has just run was a teardown with nothing to tear down
NothingToTearDown ==
  \/ /\ lastEvent.op = "disconnect"
     /\ \A r \in DOMAIN before : NoPartBefore(lastEvent.conn, r)
  \/ /\ lastEvent.op = "leave-room"
     /\ NoPartBefore(lastEvent.conn, lastEvent.room)

\* C18: the disconnect of a connection that is in no room, and a leave-room
\* for a room that is not in the table or in which the connection is neither
\* streamer nor viewer, is a silent no-op: the table is unchanged and nothing
\* is sent, neither notification nor 'error'.
C18_NothingToTearDownIsNoOp ==
  NothingToTearDown => rooms = before /\ sent = EmptyBag

\* a connection that is in no room has disconnected while another room had a
\* streamer and a viewer
C18_Witness ==
  /\ lastEvent.op = "disconnect"
  /\ NothingToTearDown
  /\ \E r \in DOMAIN before :
       HasStreamer(before[r]) /\ before[r].viewers # {}
  /\ rooms = before

(* ------------------------------- C19 ----------------------------------- *)

\* connection c is the streamer or a viewer of room r
HoldsRole(c, r) ==
  r \in DOMAIN rooms /\ (rooms[r].streamer = c \/ c \in rooms[r].viewers)

\* C19: a teardown removes the connection completely: right after the
\* disconnect of C, C is neither streamer nor viewer of any room, whatever it
\* had joined before (and so a closed connection is never in the table);
\* right after a leave-room for r by C, C holds no role in r.
C19_TeardownRemovesConnection ==
  /\ lastEvent.op = "disconnect" =>
       \A r \in RoomCodes : ~HoldsRole(lastEvent.conn, r)
  /\ lastEvent.op = "leave-room" => ~HoldsRole(lastEvent.conn, lastEvent.room)
  /\ \A c \in closed : \A r \in RoomCodes : ~HoldsRole(c, r)

\* a connection that was the streamer of one room and a viewer, among others,
\* of another one has disconnected
C19_Witness ==
  /\ lastEvent.op = "disconnect"
  /\ \E r1 \in DOMAIN before : \E r2 \in DOMAIN before \ {r1} :
       /\ before[r1].streamer = lastEvent.conn
       /\ lastEvent.conn \in before[r2].viewers
       /\ before[r2].viewers \ {lastEvent.conn} # {}
       /\ r2 \in DOMAIN rooms
  /\ \A r \in RoomCodes : ~HoldsRole(lastEvent.conn, r)

(* ------------------------------- C20 ----------------------------------- *)

\* the leave-room teardown of socketId applied to every room id of `todo`
RECURSIVE LeaveAll(_, _, _)
LeaveAll(acc, socketId, todo) ==
  IF todo = {} THEN acc
  ELSE LET roomId == CHOOSE r \in todo : TRUE
           step   == handleLeaveRoom(acc.rooms, socketId, roomId)
       IN LeaveAll([rooms |-> step.rooms, sent |-> acc.sent (+) step.sent],
                   socketId, todo \ {roomId})

\* the rooms in which connection c held a role when the handler started
RoomsBefore(c) ==
  {r \in DOMAIN before : before[r].streamer = c \/ c \in before[r].viewers}

\* what leave-room for r, and what disconnect, makes of the table `before`
LeaveOutcome(c, r) == handleLeaveRoom(before, c, r)
DisconnectOutcome(c) ==
  DisconnectAll([rooms |-> before, sent |-> EmptyBag], c, DOMAIN before)

\* C20: leave-room and disconnect are one teardown: for a connection C that
\* is in exactly one room r, disconnect leaves the table and sends the
\* notifications that leave-room for r by C does, and the other way round;
\* in general a disconnect of C makes of the table, and sends, what the
\* leave-room teardown for C applied to every room does.
C20_LeaveAndDisconnectAgree ==
  /\ lastEvent.op = "disconnect" =>
       LET all == LeaveAll([rooms |-> before, sent |-> EmptyBag],
                           lastEvent.conn, DOMAIN before)
       IN rooms = all.rooms /\ sent = all.sent
  /\ \A r \in RoomCodes :
       (lastEvent.op = "disconnect" /\ RoomsBefore(lastEvent.conn) = {r}) =>
         /\ rooms = LeaveOutcome(lastEvent.conn, r).rooms
         /\ sent = LeaveOutcome(lastEvent.conn, r).sent
  /\ (/\ lastEvent.op = "leave-room"
      /\ RoomsBefore(lastEvent.conn) = {lastEvent.room}) =>
       /\ rooms = DisconnectOutcome(lastEvent.conn).rooms
       /\ sent = DisconnectOutcome(lastEvent.conn).sent

\* the last viewer waiting in a room without streamer, in no other room, has
\* disconnected while another room was in the table
C20_Witness ==
  /\ lastEvent.op = "disconnect"
  /\ \E r \in DOMAIN before :
       /\ RoomsBefore(lastEvent.conn) = {r}
       /\ before[r] = [streamer |-> NoStreamer, viewers |-> {lastEvent.conn}]
       /\ rooms = LeaveOutcome(lastEvent.conn, r).rooms
       /\ r \notin DOMAIN rooms
  /\ rooms # EmptyMap

(* ------------------------------- C21 ----------------------------------- *)

\* C21: a join-room whose role is neither 'streamer' nor 'viewer' is refused
\* before the table is touched: the table is unchanged, no entry is created
\* and no member is added, and the requester is sent 'error'.
C21_MalformedJoinRejected ==
  (/\ lastEvent.op = "join-room"
   /\ lastEvent.role \notin {"streamer", "viewer"})
  => /\ rooms = before
     /\ BagIn(ErrorTo(lastEvent.conn), sent)

(* ------------------------------- C22 ----------------------------------- *)

\* the connections that held a role in room r when the handler started
MembersBefore(r) ==
  IF r \in DOMAIN before
  THEN (before[r].viewers \cup {before[r].streamer}) \ {NoStreamer}
  ELSE {}

\* the handler that has just run was given a room code
NamedRoom == lastEvent.op \in {"join-room", "signal", "leave-room"}

C23_OnlyJoinAdds ==
  /\ lastEvent.op = "signal" => rooms = before
  /\ lastEvent.op \in {"leave-room", "disconnect"} =>
       /\ DOMAIN rooms \subseteq DOMAIN before
       /\ \A r \in DOMAIN rooms :
            /\ rooms[r].streamer = before[r].streamer
            /\ rooms[r].viewers \subseteq before[r].viewers

\* a connection has sent leave-room for a room code that is not in the
\* table, while the table holds another room
C23_Witness ==
  /\ lastEvent.op = "leave-room"
  /\ lastEvent.room \notin DOMAIN before
  /\ before # EmptyMap
  /\ rooms = before

(* ------------------------------- C26 ----------------------------------- *)

\* the handler that has just run gave the empty slot of a room to a streamer
TookSlot ==
  /\ JoinedWith("streamer")
  /\ ~HadStreamer(lastEvent.room)
  /\ rooms[lastEvent.room].streamer = lastEvent.conn

StreamerJoinedTo(v) == RoomMsg(v, "streamer-joined", Nil, Nil)

\* C26 as stated: a viewer that has joined a room and has neither left it nor
\* disconnected since is sent streamer-joined whenever a streamer, another
\* connection, takes the slot of that room, also after an earlier streamer of
\* the room has gone.
C26_Original ==
  TookSlot =>
    \A v \in Conns \ {lastEvent.conn} :
      <<v, lastEvent.room>> \in waiting => BagIn(StreamerJoinedTo(v), sent)

\* C26: a viewer that has joined a room and has neither left it nor
\* disconnected since stays in the room's viewer set until the room's
\* streamer leaves or disconnects, which deletes the entry with its viewer
\* set; a streamer that takes the slot while the viewer is in the set has
\* streamer-joined sent to it, and a viewer whose entry was deleted is sent
\* nothing when a new streamer joins.
C26_WaitingUntilStreamerGoes ==
  /\ (lastEvent.op = "join-room" /\ lastEvent.role # "streamer") =>
       lastEvent.conn \in rooms[lastEvent.room].viewers
  /\ \A p \in waiting :
       (/\ p[1] \in ViewersBefore(p[2])
        /\ ~(lastEvent.conn = p[1] /\ lastEvent.op = "disconnect")
        /\ ~(lastEvent.conn = p[1] /\ lastEvent.op = "leave-room"
                                   /\ lastEvent.room = p[2])
        /\ ~StreamerLeft(p[2]))
       => p[2] \in DOMAIN rooms /\ p[1] \in rooms[p[2]].viewers
  /\ TookSlot =>
       \A v \in Conns :
         <<v, lastEvent.room>> \in waiting =>
           (BagIn(StreamerJoinedTo(v), sent) <=> v \in ViewersBefore(lastEvent.room))

\* a streamer has taken the slot of a room in which one viewer was waiting
\* and was sent streamer-joined, while another viewer, who had joined before
\* an earlier streamer left, was sent nothing
C26_Witness ==
  /\ TookSlot
  /\ \E v \in Conns \ {lastEvent.conn} : \E w \in Conns \ {lastEvent.conn} :
       /\ <<v, lastEvent.room>> \in waiting
       /\ <<w, lastEvent.room>> \in waiting
       /\ BagIn(StreamerJoinedTo(v), sent)
       /\ ~BagIn(StreamerJoinedTo(w), sent)

(* ------------------------------- C27 ----------------------------------- *)

\* C27: every notification addressed to the id of a connected socket X is
\* delivered to X and to no other connection, whatever room codes the clients
\* have joined, a room code that is another connection's id included.
C27_DeliveredToAddresseeOnly ==
  \A m \in BagToSet(sent) :
    (m.chan = "room" /\ m.to \in sockets) => Recipients(m) = {m.to}

(* ------------------------------- C28 ----------------------------------- *)

\* the room whose teardown made the handler send viewer-disconnected m, and
\* the ways its streamer had come to know of the viewer
KnownHow(m) ==
  {p[3] : p \in {q \in announced :
                   /\ TornDown(q[1])
                   /\ before[q[1]].streamer = m.to
                   /\ q[2] = m.arg}}

\* C28 as stated: every viewer-disconnected(V) sent to a streamer S is
\* preceded by a viewer-joined(V) sent to S during S's present tenure of the
\* slot.
C28_Original ==
  \A m \in BagToSet(sent) :
    m.ev = "viewer-disconnected" => "joined" \in KnownHow(m)

\* C28: every viewer-disconnected(V) sent to a streamer S is for the
\* connection V being torn down and is preceded, during S's present tenure of
\* the slot, by a viewer-joined(V) sent to S, or else V was already in the
\* room's viewer set when S took the slot.
C28_LeaverWasKnown ==
  \A m \in BagToSet(sent) :
    m.ev = "viewer-disconnected" =>
      /\ m.arg = lastEvent.conn
      /\ KnownHow(m) # {}

\* a viewer that had been announced to the streamer with viewer-joined has
\* disconnected, and the streamer is sent viewer-disconnected for it
C28_Witness ==
  /\ lastEvent.op = "disconnect"
  /\ \E m \in BagToSet(sent) :
       /\ m.ev = "viewer-disconnected"
       /\ m.to # lastEvent.conn
       /\ KnownHow(m) = {"joined"}

(* --------------------------- C24 and C25 ------------------------------- *)

\* a packet with this event, argument and sender is on its way to socket c
InFlight(c, ev, arg, from) ==
  \E i \in 1..Len(down[c]) :
    down[c][i].ev = ev /\ down[c][i].arg = arg /\ down[c][i].from = from

\* an event with this op waits at the server
Pending(op) ==
  \E c \in {StreamerId, ViewerId} : \E i \in 1..Len(up[c]) : up[c][i].op = op

\* the streamer client, holding a media stream, and the viewer client are
\* both in the room, and neither has left or closed its page
Together ==
  /\ mounted = {StreamerId, ViewerId}
  /\ stream /\ isStreaming
  /\ PageRoomId \in DOMAIN rooms
  /\ rooms[PageRoomId].streamer = StreamerId
  /\ ViewerId \in rooms[PageRoomId].viewers
  /\ ~Pending("leave-room") /\ ~Pending("disconnect")

\* a peer connection of one of the two has failed
PeerFailed ==
  \/ peer = Destroyed
  \/ ViewerId \in DOMAIN peers /\ peers[ViewerId] = Destroyed

\* one of the two has departed, or a peer connection has failed
Interrupted == ~Together \/ PeerFailed

\* a signal has been relayed from one of the two to the other
SignalRelayed ==
  \/ \E sig \in Payloads : InFlight(StreamerId, "signal", sig, ViewerId)
  \/ \E sig \in Payloads : InFlight(ViewerId, "streamer-signal", sig, Nil)

\* the server has just let the streamer client into the room in which the
\* viewer client was waiting
StreamerJoinedWaitingViewer ==
  /\ TookSlot
  /\ lastEvent.conn = StreamerId
  /\ BagIn(StreamerJoinedTo(ViewerId), sent)
  /\ Together

\* C24: when a viewer client has joined a room before any streamer and a
\* streamer client holding a media stream then joins it, a signal from one of
\* them is eventually relayed to the other, unless one of them leaves or
\* disconnects.
C24_WaitingViewerHandshakeStarts ==
  StreamerJoinedWaitingViewer ~> (SignalRelayed \/ Interrupted)

\* the server has just let the viewer client into the room of the streamer
\* client
ViewerJoinedStreamer ==
  /\ lastEvent.op = "join-room"
  /\ lastEvent.conn = ViewerId
  /\ HadStreamer(lastEvent.room)
  /\ before[lastEvent.room].streamer = StreamerId
  /\ Together

\* the packets of the three relays
ViewerJoinedReached == InFlight(StreamerId, "viewer-joined", ViewerId, Nil)
OfferReached == InFlight(ViewerId, "streamer-signal", "offer", Nil)
AnswerReached == InFlight(StreamerId, "signal", "answer", ViewerId)

\* the peer the streamer holds for the viewer has signalled and waits for the
\* answer
OfferOutstanding ==
  ViewerId \in DOMAIN peers /\ peers[ViewerId] = "offered"

\* ... and the state the last step leaves behind
AnswerHandedToPeer ==
  ViewerId \in DOMAIN peers /\ peers[ViewerId] \in {"answered", "connected"}

\* C25: when the streamer client has joined a room with a media stream and a
\* viewer client then joins it, the relay steps follow one another, unless
\* one of the two departs or a peer connection fails: viewer-joined(V)
\* reaches the streamer; then, the streamer holding no peer for V yet, its
\* signal reaches V as streamer-signal; then, V holding no peer yet and the
\* streamer's peer for V waiting for the answer, V's answer addressed to
\* "streamer" reaches the streamer tagged from V; then it is handed to the
\* peer the streamer holds for V.
C25_HandshakeRelayed ==
  /\ ViewerJoinedStreamer ~> (ViewerJoinedReached \/ Interrupted)
  /\ (ViewerJoinedReached /\ ViewerId \notin DOMAIN peers /\ Together)
       ~> (OfferReached \/ Interrupted)
  /\ (OfferReached /\ OfferOutstanding /\ peer = NoPeer /\ Together)
       ~> (AnswerReached \/ Interrupted)
  /\ (AnswerReached /\ Together) ~> (AnswerHandedToPeer \/ Interrupted)
  /\ ViewerJoinedStreamer ~> (AnswerHandedToPeer \/ Interrupted)

\* the answer of the viewer client has been handed to the peer the streamer
\* client holds for it, both being in the room
C25_Witness ==
  /\ Together
  /\ ~PeerFailed
  /\ AnswerHandedToPeer
  /\ peer = "answered"

(* ------------------------------- C29 ----------------------------------- *)

\* the viewers whose peer has connected and has not been torn down
ConnectedPeers == {v \in DOMAIN peers : peers[v] = "connected"}

\* C29: the streamer client's viewer count is never negative and never more
\* than the number of viewers whose peer connection has connected and has
\* not been torn down.
C29_ViewerCountInRange ==
  /\ connectedViewers >= 0
  /\ connectedViewers <= Cardinality(ConnectedPeers)

(* ------------------------------- C30 ----------------------------------- *)

\* C30: in every state of the viewer client in which the socket is open and
\* the client holds no live peer connection, connectToStream emits a
\* join-room request with role viewer.
C30_ViewerCanRetry ==
  (ViewerId \in mounted /\ peer \notin LivePeer) => NotSignaling

(* ------------------------------- C31 ----------------------------------- *)

\* the map of the streamer client holds a live peer for viewer v
HoldsLivePeer(v) == v \in DOMAIN peers /\ peers[v] \in LivePeer

\* a viewer-joined for a viewer the map holds a peer for is next at the
\* streamer client
DuplicateViewerJoined ==
  /\ Arrived(StreamerId)
  /\ Packet(StreamerId).ev = "viewer-joined"
  /\ Packet(StreamerId).arg \in DOMAIN peers

====
